---- MODULE Spec2Model ----
(***************************************************************************)
(* Model of start_app.py: the launcher that provisions the environment,    *)
(* starts the container backend, installs and builds, launches the five    *)
(* backend services and the frontend, probes their health, and supervises  *)
(* the tracked processes until they stop or a signal arrives.              *)
(***************************************************************************)
EXTENDS Integers, Sequences, FiniteSets, TLC

\* ---------------------------------------------------------------- bounds
\* Number of signals (SIGINT/SIGTERM) the operator delivers during one run.
MaxSignals == 2

\* Number of entries of the service registry the model launches: the first
\* NumServices services of the declared list, then the frontend.
NumServices == 2

\* Number of lines of the configuration file read by load_env_file.
MaxLines == 2

\* ------------------------------------------------------------- constants
\* services = [("auth", 4000), ("project", 4001), ...]  (main)
ServiceRegistry == <<"auth", "project", "collab", "file", "ai">>

services == SubSeq(ServiceRegistry, 1, NumServices)

\* A handle is named by the position of its launch: 1..5 the backend
\* services in declared order, 6 the frontend process.
frontend_process == NumServices + 1

Handles == 1..frontend_process

\* required = {"node": ..., "npm": ...}  (check_prerequisites)
required == {"node", "npm"}

Absent == "absent"

\* Exit statuses of the interpreter.
\* sys.exit(0) in signal_handler and the normal return of main
ExitOk == 0
\* sys.exit(1) in main, and the status of an uncaught exception
ExitFailure == 1
\* Statuses of a run ended by the default disposition of a signal.
ExitSigint == 128 + 2
ExitSigterm == 128 + 15
NotExited == 0 - 1

VARIABLES
    pc,              \* position of main()
    exitStatus,      \* exit status of the run, NotExited while it runs
    how,             \* how the run ended: "none", "prereq", "dirs", "install", "natural", "handler", "killed"
    missing,         \* required executables that are not on PATH
    envFile,         \* content of backend/.env, or Absent
    exampleEnv,      \* content of backend/example.env, or Absent
    nodeModules,     \* workspaces whose node_modules directory exists
    built,           \* the build step has been invoked by this run
    dockerInstalled, \* check_docker(): docker and docker-compose are on PATH
    docker_process,  \* main's docker_process is not None
    dockerUp,        \* containers started by this run are up
    downCalls,       \* number of "docker-compose down" invocations
    alive,           \* handles whose process is running
    failed,          \* handles for which the launch returned None
    processes,       \* main's list of tracked Popen handles
    svc,             \* index of the launch / health for-loop over services
    out,             \* the last line of the report printed: <<kind, who, what>>
    handlerInstalled,\* signal.signal(...) has registered signal_handler
    i,               \* position of the list iterator of the monitor for-loop
    allDeadAtTick,   \* every tracked process had exited when the current tick began
    polledAlive,     \* handles polled as running during the current tick
    frames,          \* stack of running signal_handler invocations
    termCalls,       \* handle -> number of process.terminate() calls
    anyRaised,       \* some process.terminate() call has raised
    sigs,            \* number of signals delivered so far
    env_file,        \* load_env_file: backend/.env, whether it exists and its lines
    readPos,         \* load_env_file: lines of the file consumed by "for line in f"
    env_vars,        \* load_env_file: the dict env_vars, key -> value
    lpc,             \* load_env_file: position of the call
    warned           \* load_env_file: the except branch printed its warning

vars == <<pc, exitStatus, how, missing, envFile, exampleEnv, nodeModules,
          built, dockerInstalled, docker_process, dockerUp, downCalls, alive, failed, processes, svc, out, handlerInstalled, i,
          allDeadAtTick, polledAlive, frames, termCalls, anyRaised, sigs,
          env_file, readPos, env_vars, lpc, warned>>

fsVars == <<missing, envFile, exampleEnv, nodeModules, built>>
dockerVars == <<dockerInstalled, docker_process, dockerUp, downCalls>>
procVars == <<alive, failed, processes, svc, out>>
loopVars == <<i, allDeadAtTick, polledAlive>>
sigVars == <<handlerInstalled, frames, termCalls, anyRaised, sigs>>
loadVars == <<env_file, readPos, env_vars, lpc, warned>>
mainVars == <<pc, exitStatus, how, fsVars, dockerVars, procVars, loopVars,
              sigVars>>

Range(s) == {s[k] : k \in 1..Len(s)}

\* Lines of the report (print_colored) that the model keeps track of.
NoLine == <<"none", 0, "">>
LaunchLine(h, ok) == <<"launch", h, IF ok THEN "started" ELSE "failed to start">>
HealthLine(s, ok) == <<"health", s, IF ok THEN "healthy" ELSE "health check failed">>
StoppedLine(h, name) == <<"stopped", h, name>>
AllStoppedLine == <<"all stopped", 0, "">>
ShutdownLine == <<"shutting down", 0, "">>

\* ------------------------------------------------------------------ Init
InitCommon ==
    /\ pc = "prereq"
    /\ exitStatus = NotExited
    /\ how = "none"
    /\ built = FALSE
    /\ docker_process = FALSE
    /\ dockerUp = FALSE
    /\ downCalls = 0
    /\ alive = {}
    /\ failed = {}
    /\ processes = <<>>
    /\ svc = 0
    /\ out = NoLine
    /\ handlerInstalled = FALSE
    /\ i = 0
    /\ allDeadAtTick = FALSE
    /\ polledAlive = {}
    /\ frames = <<>>
    /\ termCalls = [h \in Handles |-> 0]
    /\ anyRaised = FALSE
    /\ sigs = 0

\* The empty dict.
EmptyDict == [k \in {} |-> <<>>]

\* A path with no file, and a file made of the given lines.
NoFile == [exists |-> FALSE, lines |-> <<>>]
File(ls) == [exists |-> TRUE, lines |-> ls]

\* No call of load_env_file is in progress.
LoadIdle ==
    /\ env_file = NoFile
    /\ readPos = 0
    /\ env_vars = EmptyDict
    /\ lpc = "idle"
    /\ warned = FALSE

\* Any checkout: the configuration file and its template may or may not
\* exist, either dependency cache may be missing, and the required and the
\* container executables may or may not be installed.
Init ==
    /\ InitCommon
    /\ LoadIdle
    /\ missing \in SUBSET required
    /\ envFile \in {Absent, "custom"}
    /\ exampleEnv \in {Absent, "template"}
    /\ nodeModules \in SUBSET {"backend", "frontend"}
    /\ dockerInstalled \in BOOLEAN

\* sys.exit(status) / interpreter exit from the main program.
Exit(status, reason) ==
    /\ pc' = "exited"
    /\ exitStatus' = status
    /\ how' = reason

Running == pc # "exited" /\ frames = <<>>

\* ------------------------------------------------------- startup phases
\* A check that fails only when every required executable is missing.
check_prerequisites_all(notFound) == notFound # required

\* check_prerequisites(): False when some required executable is missing
check_prerequisites(notFound) == notFound = {}

\* main: "if not check_prerequisites(): sys.exit(1)"
CheckPrerequisites ==
    /\ Running /\ pc = "prereq"
    /\ IF check_prerequisites(missing)
       THEN pc' = "dirs" /\ UNCHANGED <<exitStatus, how>>
       ELSE Exit(ExitFailure, "prereq")
    /\ UNCHANGED <<fsVars, dockerVars, procVars, loopVars, sigVars, loadVars>>

\* main: backend_dir.exists() / frontend_dir.exists()
CheckDirectories ==
    /\ Running /\ pc = "dirs"
    /\ \E backendExists \in BOOLEAN, frontendExists \in BOOLEAN :
         IF ~backendExists \/ ~frontendExists
         THEN Exit(ExitFailure, "dirs")
         ELSE pc' = "env" /\ UNCHANGED <<exitStatus, how>>
    /\ UNCHANGED <<fsVars, dockerVars, procVars, loopVars, sigVars, loadVars>>

\* A provisioning that copies the template whenever there is one.
setup_env_file_overwriting(env, example) ==
    IF example # Absent THEN example ELSE env

\* setup_env_file: the content of .env afterwards
setup_env_file(env, example) ==
    IF env # Absent THEN env
    ELSE IF example # Absent THEN example
    ELSE Absent

SetupEnvFile ==
    /\ Running /\ pc = "env"
    /\ envFile' = setup_env_file(envFile, exampleEnv)
    /\ pc' = "docker"
    /\ UNCHANGED <<exitStatus, how, missing, exampleEnv, nodeModules,
                   built, dockerVars, procVars, loopVars, sigVars, loadVars>>

\* start_docker_services: the outcomes of its branches
DockerOutcomes(installed) ==
    IF installed
    THEN {"no_compose_file", "already_running", "started", "up_failed", "error"}
    ELSE {"skipped"}

\* start_docker_services returns the Popen of "docker-compose up -d" only
\* when it exited with status 0
start_docker_services(outcome) == outcome = "started"

StartDockerServices ==
    /\ Running /\ pc = "docker"
    /\ \E outcome \in DockerOutcomes(dockerInstalled) :
         /\ docker_process' = start_docker_services(outcome)
         /\ dockerUp' = start_docker_services(outcome)
    /\ pc' = "deps_backend"
    /\ UNCHANGED <<exitStatus, how, fsVars, dockerInstalled, downCalls,
                   procVars, loopVars, sigVars, loadVars>>

\* main: "if not node_modules.exists(): subprocess.run(npm install, check=True)"
\* An install that exits non-zero raises CalledProcessError, which nothing
\* catches: the interpreter prints the traceback and exits with status 1.
InstallDependencies(workspace, nextPc) ==
    IF workspace \in nodeModules
    THEN /\ pc' = nextPc
         /\ UNCHANGED <<exitStatus, how, nodeModules>>
    ELSE \E returncode \in {0, 1} :
           /\ IF returncode = 0
              THEN /\ nodeModules' = nodeModules \cup {workspace}
                   /\ pc' = nextPc
                   /\ UNCHANGED <<exitStatus, how>>
              ELSE /\ Exit(ExitFailure, "install")
                   /\ UNCHANGED nodeModules

InstallBackend ==
    /\ Running /\ pc = "deps_backend"
    /\ InstallDependencies("backend", "deps_frontend")
    /\ UNCHANGED <<missing, envFile, exampleEnv, built, dockerVars, procVars,
                   loopVars, sigVars, loadVars>>

InstallFrontend ==
    /\ Running /\ pc = "deps_frontend"
    /\ InstallDependencies("frontend", "build")
    /\ UNCHANGED <<missing, envFile, exampleEnv, built, dockerVars, procVars,
                   loopVars, sigVars, loadVars>>

\* main: build-packages.py or "npm run build"; every outcome is only logged
BuildOutcomes == {"ok", "nonzero", "timeout", "error"}

\* The line printed for the outcome of the build.
BuildLine(outcome) == <<"build", 0, outcome>>

\* A build step whose failure ends the run.
BuildContinuesOnSuccessOnly(outcome) == outcome = "ok"

\* main: a non-zero exit is only printed, and "except subprocess.TimeoutExpired"
\* and "except Exception" print "continuing anyway"
BuildContinues(outcome) == TRUE

BuildPackages ==
    /\ Running /\ pc = "build"
    /\ \E outcome \in BuildOutcomes :
         /\ built' = TRUE
         /\ out' = BuildLine(outcome)
         /\ IF BuildContinues(outcome)
            THEN pc' = "launch" /\ svc' = 1 /\ UNCHANGED <<exitStatus, how>>
            ELSE Exit(ExitFailure, "build") /\ UNCHANGED svc
    /\ UNCHANGED <<missing, envFile, exampleEnv, nodeModules,
                   dockerVars, alive, failed, processes, loopVars, sigVars, loadVars>>

\* ------------------------------------------------------- child processes
\* A spawned process may exit at any moment, on its own or because it was
\* sent a termination request. (signal_handler never reads the state of a
\* process, so exits during a shutdown are not distinguished.)
ProcessExits(h) ==
    /\ Running
    /\ h \in alive
    /\ alive' = alive \ {h}
    /\ UNCHANGED <<pc, exitStatus, how, fsVars, dockerVars, failed,
                   processes, svc, out, loopVars, sigVars, loadVars>>

\* process.poll() is None
poll_is_None(h) == h \in alive

\* --------------------------------------------------------- launch phase
\* A launch that spawns the process and goes on to the next launch without
\* the grace sleep and the probe.
SpawnWithoutProbe(h, gracePc, skipPc) ==
    /\ alive' = alive \cup {h}
    /\ pc' = skipPc
    /\ UNCHANGED <<failed, out>>

\* start_backend_service / start_frontend up to the grace sleep: Popen either
\* spawns the process or raises, in which case the function returns None.
Spawn(h, gracePc, skipPc) ==
    \E raised \in BOOLEAN :
      IF raised
      THEN /\ failed' = failed \cup {h}
           /\ out' = LaunchLine(h, FALSE)
           /\ pc' = skipPc
           /\ UNCHANGED alive
      ELSE /\ alive' = alive \cup {h}
           /\ pc' = gracePc
           /\ UNCHANGED <<failed, out>>

\* A launch that returns the process without probing it.
launch_returns_unprobed(h) == TRUE

\* The value start_backend_service / start_frontend returns after the grace
\* sleep: the process when poll() is None, otherwise None.
launch_returns_process(h) == poll_is_None(h)

\* main: "if process: processes.append(process)"
Probe(h, nextPc) ==
    /\ IF launch_returns_process(h)
       THEN processes' = Append(processes, h) /\ UNCHANGED failed
       ELSE failed' = failed \cup {h} /\ UNCHANGED processes
    /\ out' = LaunchLine(h, launch_returns_process(h))
    /\ pc' = nextPc

SpawnService ==
    /\ Running /\ pc = "launch"
    /\ Spawn(svc, "grace", "delay")
    /\ UNCHANGED <<exitStatus, how, fsVars, dockerVars, processes, svc,
                   loopVars, sigVars, loadVars>>

ProbeService ==
    /\ Running /\ pc = "grace"
    /\ Probe(svc, "delay")
    /\ UNCHANGED <<exitStatus, how, fsVars, dockerVars, alive, svc,
                   loopVars, sigVars, loadVars>>

\* A launch loop that tries a service again when its launch failed.
NextServiceRetrying(s) == IF s \in failed THEN s ELSE s + 1

\* The service "for service_name, port in services" launches after service
\* s: the next one of the list, whatever became of s.
NextService(s) == s + 1

\* main: time.sleep(0.5) and the next iteration of "for service_name, port"
InterLaunchDelay ==
    /\ Running /\ pc = "delay"
    /\ IF NextService(svc) <= NumServices
       THEN svc' = NextService(svc) /\ pc' = "launch"
       ELSE svc' = 0 /\ pc' = "frontend"
    /\ UNCHANGED <<exitStatus, how, fsVars, dockerVars, alive, failed,
                   processes, out, loopVars, sigVars, loadVars>>

SpawnFrontend ==
    /\ Running /\ pc = "frontend"
    /\ Spawn(frontend_process, "fgrace", "warmup")
    /\ UNCHANGED <<exitStatus, how, fsVars, dockerVars, processes, svc,
                   loopVars, sigVars, loadVars>>

ProbeFrontend ==
    /\ Running /\ pc = "fgrace"
    /\ Probe(frontend_process, "warmup")
    /\ UNCHANGED <<exitStatus, how, fsVars, dockerVars, alive, svc,
                   loopVars, sigVars, loadVars>>

\* main: time.sleep(3)
WarmUp ==
    /\ Running /\ pc = "warmup"
    /\ pc' = "health"
    /\ svc' = 1
    /\ UNCHANGED <<exitStatus, how, fsVars, dockerVars, alive, failed,
                   processes, out, loopVars, sigVars, loadVars>>

\* ---------------------------------------------------------- health pass
\* check_service_health: True only when GET /health answers 200; any
\* exception, a KeyboardInterrupt included, makes it False. The port of a
\* service is answered by that service's process alone, so a service whose
\* process is not running cannot answer.
check_service_health(s, interrupted, answers200) ==
    ~interrupted /\ s \in alive /\ answers200

\* A health pass that stops tracking a service whose probe is False.
TrackedAfterProbeDropsUnhealthy(procs, s, healthy) ==
    IF healthy THEN procs ELSE SelectSeq(procs, LAMBDA h : h # s)

\* main: the body of the health for-loop only prints; processes is not
\* touched whatever check_service_health returns.
TrackedAfterProbe(procs, s, healthy) == procs

\* One iteration of "for service_name, port in services: check_service_health"
HealthIteration(interrupted) ==
    /\ \E answers200 \in BOOLEAN :
         LET healthy == check_service_health(svc, interrupted, answers200) IN
           /\ out' = HealthLine(svc, healthy)
           /\ processes' = TrackedAfterProbe(processes, svc, healthy)
    /\ IF svc < NumServices
       THEN svc' = svc + 1 /\ pc' = "health"
       ELSE svc' = 0 /\ pc' = "register"

HealthProbe ==
    /\ Running /\ pc = "health"
    /\ HealthIteration(FALSE)
    /\ UNCHANGED <<exitStatus, how, fsVars, dockerVars, alive, failed,
                   loopVars, sigVars, loadVars>>

\* The monitor loop starts a pass over processes.
StartTick ==
    /\ pc' = "loop_for"
    /\ i' = 0
    /\ allDeadAtTick' = (processes # <<>> /\ Range(processes) \cap alive = {})
    /\ polledAlive' = {}

\* main: signal.signal(SIGINT, signal_handler); signal.signal(SIGTERM, ...)
\* and the entry into "while True"
RegisterHandlers ==
    /\ Running /\ pc = "register"
    /\ handlerInstalled' = TRUE
    /\ StartTick
    /\ UNCHANGED <<exitStatus, how, fsVars, dockerVars, procVars, frames,
                   termCalls, anyRaised, sigs, loadVars>>

\* --------------------------------------------------------- monitor loop
\* A removal that drops the element at the front of the list.
remove_front(list, x) == IF list = <<>> THEN <<>> ELSE Tail(list)

\* list.remove(x): the list without the first occurrence of x
RECURSIVE remove(_, _)
remove(list, x) ==
    IF list = <<>> THEN <<>>
    ELSE IF Head(list) = x THEN Tail(list)
    ELSE <<Head(list)>> \o remove(Tail(list), x)

\* main: "services[i][0] if i < len(services) else 'frontend'", i counted from 0
ReportedName(idx) == IF idx < Len(services) THEN services[idx + 1] ELSE "frontend"

\* The list iterator of "for i, process in enumerate(processes)" after the
\* element at position idx (from 0) was visited: it moves on by one whether
\* or not the body removed an element from the list.
IteratorAfter(idx, removed) == idx + 1

\* One step of "for i, process in enumerate(processes)": either the body for
\* the next element the iterator yields, or the end of the for statement.
MonitorStep ==
    /\ Running /\ pc = "loop_for"
    /\ IF i < Len(processes)
       THEN LET process == processes[i + 1] IN
            IF poll_is_None(process)
            THEN /\ polledAlive' = polledAlive \cup {process}
                 /\ i' = IteratorAfter(i, FALSE)
                 /\ UNCHANGED <<pc, processes, out>>
            ELSE /\ out' = StoppedLine(process, ReportedName(i))
                 /\ processes' = remove(processes, process)
                 /\ i' = IteratorAfter(i, TRUE)
                 /\ UNCHANGED <<pc, polledAlive>>
       ELSE /\ pc' = "loop_check"
            /\ UNCHANGED <<processes, i, polledAlive, out>>
    /\ UNCHANGED <<exitStatus, how, fsVars, dockerVars, alive, failed,
                   svc, allDeadAtTick, sigVars, loadVars>>

\* The test of the break inverted.
LoopBreaksInverted(procs) == procs # <<>>

\* main: "if not processes: break"
LoopBreaks(procs) == procs = <<>>

\* The status of a run whose main() returns after the break.
NaturalExitStatus == ExitOk

MonitorCheck ==
    /\ Running /\ pc = "loop_check"
    /\ IF LoopBreaks(processes)
       THEN Exit(NaturalExitStatus, "natural") /\ out' = AllStoppedLine
       ELSE pc' = "loop_sleep" /\ UNCHANGED <<exitStatus, how, out>>
    /\ UNCHANGED <<fsVars, dockerVars, alive, failed, processes, svc,
                   loopVars, sigVars, loadVars>>

\* main: time.sleep(5), then the next pass of "while True"
MonitorSleep ==
    /\ Running /\ pc = "loop_sleep"
    /\ StartTick
    /\ UNCHANGED <<exitStatus, how, fsVars, dockerVars, procVars, sigVars, loadVars>>

\* ------------------------------------------------------- signal handling
\* A running invocation of signal_handler: k is the position in processes of
\* its for-loop, at its place in the body.
\*   "for"        at the for statement, outside any try
\*   "try"        inside "try: process.terminate()", before the call
\*   "killed"     inside the same try statement, after the call returned or
\*                raised
\*   "docker_try" inside "try: subprocess.run(docker-compose down)"
\*   "exit"       at sys.exit(0)
NewFrame == [k |-> 1, at |-> "for"]

Top == frames[Len(frames)]

SetTop(f) == [frames EXCEPT ![Len(frames)] = f]

\* The frame is inside one of the handler's "try: ... except: pass" blocks.
InTry(f) == f.at \in {"try", "killed", "docker_try"}

\* Where a frame continues after its bare "except: pass" caught an exception.
AfterExcept(f) ==
    IF f.at = "docker_try" THEN [k |-> f.k, at |-> "exit"]
    ELSE [k |-> f.k + 1, at |-> "for"]

\* SystemExit raised by sys.exit(0) leaves every frame that is outside a try
\* and is caught by the bare except of the first frame that is inside one.
RECURSIVE Unwind(_)
Unwind(fs) ==
    IF fs = <<>> THEN <<>>
    ELSE LET f == fs[Len(fs)]
             below == SubSeq(fs, 1, Len(fs) - 1)
         IN IF InTry(f) THEN Append(below, AfterExcept(f)) ELSE Unwind(below)

\* A signal for which signal_handler is registered: the handler is entered
\* on top of whatever is running and prints its first line. No path of the
\* handler returns to main (it ends in sys.exit, and main's only except
\* clause is for KeyboardInterrupt), so the interrupted pass of the monitor
\* loop is abandoned.
EnterHandler ==
    /\ frames' = Append(frames, NewFrame)
    /\ out' = ShutdownLine
    /\ pc' = "interrupted"
    /\ i' = 0
    /\ allDeadAtTick' = FALSE
    /\ polledAlive' = {}
    /\ UNCHANGED <<exitStatus, how, svc, processes>>

\* A signal under the default dispositions: SIGTERM kills the interpreter;
\* SIGINT raises KeyboardInterrupt, which only the bare except of
\* check_service_health catches.
DefaultDisposition(sig, inTry) ==
    IF sig = "SIGINT" /\ pc = "health" /\ inTry
    THEN /\ HealthIteration(TRUE)
         /\ UNCHANGED <<exitStatus, how, frames, loopVars>>
    ELSE /\ Exit(IF sig = "SIGTERM" THEN ExitSigterm ELSE ExitSigint, "killed")
         /\ UNCHANGED <<frames, svc, out, processes, loopVars>>

\* A SIGINT or SIGTERM is delivered to the launcher.
Signal ==
    /\ pc # "exited"
    /\ sigs < MaxSignals
    /\ sigs' = sigs + 1
    /\ \E sig \in {"SIGINT", "SIGTERM"}, inTry \in BOOLEAN :
         IF handlerInstalled
         THEN EnterHandler
         ELSE DefaultDisposition(sig, inTry)
    /\ UNCHANGED <<fsVars, dockerVars, alive, failed, handlerInstalled,
                   termCalls, anyRaised, loadVars>>

\* check_docker(): both executables are on PATH
check_docker == dockerInstalled

\* The teardown test with the executable check negated.
TeardownWantedNegated == docker_process /\ ~check_docker

\* signal_handler: "if docker_process and check_docker()"
TeardownWanted == docker_process /\ check_docker

\* signal_handler: "for process in processes" and, once the list is
\* exhausted, "if docker_process and check_docker()"
HandlerFor ==
    /\ pc # "exited" /\ frames # <<>> /\ Top.at = "for"
    /\ frames' = SetTop(IF Top.k <= Len(processes)
                         THEN [Top EXCEPT !.at = "try"]
                         ELSE IF TeardownWanted
                         THEN [Top EXCEPT !.at = "docker_try"]
                         ELSE [Top EXCEPT !.at = "exit"])
    /\ UNCHANGED <<pc, exitStatus, how, fsVars, dockerVars, procVars, loopVars,
                   handlerInstalled, termCalls, anyRaised, sigs, loadVars>>

\* A handler without the try/except around process.terminate().
NotSwallowed(raised) == ~raised

\* signal_handler: "except: pass" around process.terminate()
Swallowed(raised) == TRUE

\* signal_handler: process.terminate(), which may raise
HandlerTerminate ==
    /\ pc # "exited" /\ frames # <<>> /\ Top.at = "try"
    /\ termCalls' = [termCalls EXCEPT ![processes[Top.k]] = @ + 1]
    /\ \E raised \in BOOLEAN :
         /\ anyRaised' = (anyRaised \/ raised)
         /\ IF Swallowed(raised)
            THEN /\ frames' = SetTop([Top EXCEPT !.at = "killed"])
                 /\ UNCHANGED <<pc, exitStatus, how>>
            ELSE \* the exception leaves the handler and main
                 /\ frames' = <<>>
                 /\ Exit(ExitFailure, "handler")
    /\ UNCHANGED <<fsVars, dockerVars, procVars, loopVars, handlerInstalled,
                   sigs, loadVars>>

\* signal_handler: leaving the try block, on to the next process
HandlerNext ==
    /\ pc # "exited" /\ frames # <<>> /\ Top.at = "killed"
    /\ frames' = SetTop([k |-> Top.k + 1, at |-> "for"])
    /\ UNCHANGED <<pc, exitStatus, how, fsVars, dockerVars, procVars, loopVars,
                   handlerInstalled, termCalls, anyRaised, sigs, loadVars>>

\* signal_handler: subprocess.run(["docker-compose", "down"]), best effort
HandlerDockerDown ==
    /\ pc # "exited" /\ frames # <<>> /\ Top.at = "docker_try"
    /\ downCalls' = downCalls + 1
    /\ \E stopped \in BOOLEAN : dockerUp' = (dockerUp /\ ~stopped)
    /\ frames' = SetTop([Top EXCEPT !.at = "exit"])
    /\ UNCHANGED <<pc, exitStatus, how, fsVars, dockerInstalled, docker_process,
                   procVars, loopVars, handlerInstalled, termCalls, anyRaised,
                   sigs, loadVars>>

\* The status signal_handler passes to sys.exit
HandlerExitStatus == ExitOk

\* signal_handler: sys.exit(0)
HandlerExit ==
    /\ pc # "exited" /\ frames # <<>> /\ Top.at = "exit"
    /\ LET rest == Unwind(SubSeq(frames, 1, Len(frames) - 1)) IN
         /\ frames' = rest
         /\ IF rest = <<>>
            THEN Exit(HandlerExitStatus, "handler")
            ELSE UNCHANGED <<pc, exitStatus, how>>
    /\ UNCHANGED <<fsVars, dockerVars, procVars, loopVars, handlerInstalled,
                   termCalls, anyRaised, sigs, loadVars>>

\* ------------------------------------------------------- specifications
Startup ==
    \/ CheckPrerequisites
    \/ CheckDirectories
    \/ SetupEnvFile
    \/ StartDockerServices
    \/ InstallBackend
    \/ InstallFrontend
    \/ BuildPackages

Launch ==
    \/ SpawnService
    \/ ProbeService
    \/ InterLaunchDelay
    \/ SpawnFrontend
    \/ ProbeFrontend
    \/ WarmUp
    \/ HealthProbe
    \/ RegisterHandlers

Monitor ==
    \/ MonitorStep
    \/ MonitorCheck
    \/ MonitorSleep

Handler ==
    \/ HandlerFor
    \/ HandlerTerminate
    \/ HandlerNext
    \/ HandlerDockerDown
    \/ HandlerExit

Next ==
    \/ Startup
    \/ Launch
    \/ Monitor
    \/ Signal
    \/ Handler
    \/ \E h \in Handles : ProcessExits(h)

Spec == Init /\ [][Next]_vars

\* A run to which no signal is delivered, in which main keeps running and
\* every spawned process eventually exits.
NextNoSignal ==
    \/ Startup
    \/ Launch
    \/ Monitor
    \/ \E h \in Handles : ProcessExits(h)

LiveSpec ==
    /\ Init
    /\ [][NextNoSignal]_vars
    /\ WF_vars(Monitor)
    /\ \A h \in Handles : WF_vars(ProcessExits(h))

\* A run to which no signal is delivered and in which main, which never
\* waits for anything but its own sleeps and its child processes, keeps
\* running.
ProgressSpec ==
    /\ Init
    /\ [][NextNoSignal]_vars
    /\ WF_vars(Startup)
    /\ WF_vars(Launch)

\* ---------------------------------------------------------------- claims
Tracked == Range(processes)

TickDone == pc = "loop_check"

ShutDownByHandler == pc = "exited" /\ how = "handler"

AllRequested == \A h \in Tracked : termCalls[h] >= 1

\* --------------------------------------------------------- load_env_file
\* Text is a sequence of one-character strings.
Whitespace == {" "}
DQ == "\""
SQ == "'"

\* os.environ of the launcher: one variable the file may override and one
\* it does not mention.
environ == [k \in {<<"A">>, <<"P">>} |-> <<"e">>]

\* Lines a configuration file is made of (without their line terminator,
\* which line.strip() removes).
SampleLines ==
    { <<>>,
      <<" ">>,
      <<"#", "A", "=", "v">>,
      <<"A">>,
      <<"A", "=", "v">>,
      <<"A", "=", "w">>,
      <<"B", "=", "v", "=", "w">>,
      <<" ", "B", " ", "=", "v", " ">>,
      <<"A", "=", DQ, "v", DQ>>,
      <<"B", "=", SQ, "w", SQ>>,
      <<"A", "=", DQ, SQ, "v", SQ, DQ>> }

SeqsUpTo(S, n) == UNION {[1..m -> S] : m \in 0..n}

Files == {NoFile} \cup {File(ls) : ls \in SeqsUpTo(SampleLines, MaxLines)}

\* str.lstrip(chars), str.rstrip(chars), str.strip(chars)
RECURSIVE lstrip(_, _)
lstrip(s, chars) ==
    IF s # <<>> /\ Head(s) \in chars THEN lstrip(Tail(s), chars) ELSE s

RECURSIVE rstrip(_, _)
rstrip(s, chars) ==
    IF s # <<>> /\ s[Len(s)] \in chars
    THEN rstrip(SubSeq(s, 1, Len(s) - 1), chars)
    ELSE s

strip(s, chars) == rstrip(lstrip(s, chars), chars)

\* str.startswith(c) for a one-character prefix
startswith(s, c) == s # <<>> /\ s[1] = c

\* str.split(sep, 1) of a text that contains sep: <<before, after>>
split1(s, sep) ==
    LET k == CHOOSE n \in 1..Len(s) :
                 s[n] = sep /\ \A j \in 1..(n - 1) : s[j] # sep
    IN  <<SubSeq(s, 1, k - 1), SubSeq(s, k + 1, Len(s))>>

\* The body of "for line in f": the dict after one line.
ProcessLine(raw, dict) ==
    LET line == strip(raw, Whitespace) IN
      IF line # <<>> /\ ~startswith(line, "#") /\ "=" \in Range(line)
      THEN LET kv    == split1(line, "=")
               value == strip(strip(kv[2], {DQ}), {SQ})
               key   == strip(kv[1], Whitespace)
           IN  [x \in DOMAIN dict \cup {key} |->
                  IF x = key THEN value ELSE dict[x]]
      ELSE dict

\* env_vars = os.environ.copy(); if env_file.exists():
LoadStart ==
    /\ lpc = "call"
    /\ env_vars' = environ
    /\ lpc' = IF env_file.exists THEN "open" ELSE "returned"
    /\ UNCHANGED <<env_file, readPos, warned, mainVars>>

\* with open(env_file, 'r') as f:
LoadOpen ==
    /\ lpc = "open"
    /\ lpc' = "for"
    /\ readPos' = 0
    /\ UNCHANGED <<env_file, env_vars, warned, mainVars>>

\* One iteration of "for line in f".
LoadLine ==
    /\ lpc = "for" /\ readPos < Len(env_file.lines)
    /\ readPos' = readPos + 1
    /\ env_vars' = ProcessLine(env_file.lines[readPos + 1], env_vars)
    /\ UNCHANGED <<env_file, lpc, warned, mainVars>>

\* The file is exhausted: return env_vars.
LoadEOF ==
    /\ lpc = "for" /\ readPos = Len(env_file.lines)
    /\ lpc' = "returned"
    /\ UNCHANGED <<env_file, readPos, env_vars, warned, mainVars>>

\* open() or the read behind "for line in f" raises (OSError,
\* UnicodeDecodeError): the except branch prints the warning and the
\* function returns env_vars as it is.
LoadRaises ==
    /\ lpc \in {"open", "for"}
    /\ warned' = TRUE
    /\ lpc' = "returned"
    /\ UNCHANGED <<env_file, readPos, env_vars, mainVars>>

LoadNext == LoadStart \/ LoadOpen \/ LoadLine \/ LoadEOF \/ LoadRaises

\* A call of load_env_file on any configuration file.
LoadInit ==
    /\ InitCommon
    /\ missing = {}
    /\ env_file \in Files
    /\ envFile = (IF env_file.exists THEN "custom" ELSE Absent)
    /\ exampleEnv = Absent
    /\ nodeModules = {}
    /\ dockerInstalled = FALSE
    /\ readPos = 0
    /\ env_vars = EmptyDict
    /\ lpc = "call"
    /\ warned = FALSE

LoadSpec == LoadInit /\ [][LoadNext]_vars

\* C1: after every tick of the monitor loop, every handle still in the
\* tracked list was polled during that tick and found running.
C1_TickLeavesOnlyPolledAlive == TickDone => Tracked \subseteq polledAlive

\* C2: when every tracked process had exited before a tick began, that
\* tick's check finds the list empty, so the loop terminates at that check.
C2_AllDeadTerminatesAtNextTick == (TickDone /\ allDeadAtTick) => processes = <<>>

\* C3: over a whole shutdown, with the handler invoked more than once, each
\* tracked process has received exactly one termination request.
C3_TerminatedExactlyOnce ==
    ShutDownByHandler => \A h \in Tracked : termCalls[h] = 1

\* C4: a signal delivered in the monitor loop ends in a termination request
\* to every tracked handle, then, for a container backend started by this
\* run, a teardown request, and an exit with status 0.
C4_SignalShutsEverythingDown ==
    /\ downCalls >= 1 => AllRequested
    /\ ShutDownByHandler =>
         /\ AllRequested
         /\ docker_process => downCalls >= 1
         /\ exitStatus = ExitOk

C4_Witness ==
    /\ ShutDownByHandler
    /\ Len(processes) >= 2
    /\ docker_process
    /\ downCalls >= 1
    /\ sigs = 1

FatalAbort == pc = "exited" /\ how \in {"prereq", "dirs", "install"}

C6_FatalAbortStartedNothing ==
    FatalAbort => exitStatus = ExitFailure /\ alive = {} /\ processes = <<>>
                  /\ ~docker_process /\ ~dockerUp

\* C7: with no signal, the check that finds the tracked list empty ends the
\* run with status 0; the loop never sleeps on an empty list, so a list that
\* is empty on entry ends the run at the first check; and when every
\* tracked process eventually exits the run eventually ends with status 0.
C7_EmptyListTerminates ==
    /\ [][(TickDone /\ processes = <<>> /\ pc' # pc)
            => (pc' = "exited" /\ exitStatus' = ExitOk /\ how' = "natural")]_vars
    /\ [](pc = "loop_sleep" => processes # <<>>)
    /\ (pc = "loop_for" ~> (pc = "exited" /\ exitStatus = ExitOk))

C7_Witness ==
    /\ pc = "exited"
    /\ how = "natural"
    /\ exitStatus = ExitOk
    /\ failed = {}

\* C8: a run that ends because the tracked list became empty has torn
\* down the container backend it started.
C8_NaturalEndTearsDown ==
    (pc = "exited" /\ how = "natural" /\ docker_process)
        => (downCalls >= 1 /\ ~dockerUp)

\* C9: with a required executable missing the run never gets past the
\* prerequisite check, exits with a non-zero status, and no step of it
\* creates the configuration file, installs, builds, starts the container
\* backend or spawns a process.
C9_MissingPrerequisiteAborts ==
    /\ [](missing # {} => /\ pc \in {"prereq", "exited"}
                          /\ pc = "exited" => exitStatus \notin {NotExited, ExitOk})
    /\ [][missing # {} => UNCHANGED <<envFile, nodeModules, built,
                                       docker_process, dockerUp, alive,
                                       processes>>]_vars

C9_Witness ==
    /\ missing = {"npm"}
    /\ pc = "exited"
    /\ how = "prereq"
    /\ exitStatus = ExitFailure
    /\ envFile = Absent
    /\ exampleEnv # Absent

\* C10: a shutdown in which some termination request raised still issues a
\* request to every tracked handle, still requests the teardown of a
\* container backend started by this run, and still exits with status 0.
C10_RaisingTerminateIsSwallowed ==
    (pc = "exited" /\ handlerInstalled /\ anyRaised) =>
        /\ how = "handler"
        /\ AllRequested
        /\ docker_process => downCalls >= 1
        /\ exitStatus = ExitOk

C10_Witness ==
    /\ ShutDownByHandler
    /\ anyRaised
    /\ Len(processes) >= 2
    /\ docker_process
    /\ downCalls >= 1

\* C11: a service whose launch failed never gets a process again, and from
\* the moment the monitor loop is entered no process is spawned and the
\* tracked list never gains a handle.
C11_NeverRestarts ==
    /\ [](failed \cap alive = {})
    /\ [][\A h \in failed : h \notin alive']_vars
    /\ [][handlerInstalled =>
            /\ alive' \subseteq alive
            /\ Len(processes') <= Len(processes)
            /\ Range(processes') \subseteq Tracked]_vars

C11_Witness ==
    /\ pc = "loop_sleep"
    /\ failed = {1}
    /\ processes = <<frontend_process>>
    /\ alive = {frontend_process}

\* The launch of handle h has concluded: it was appended or it failed.
Concluded(h) == h \in failed \cup Tracked

\* C12: launches are serialized in the declared order: a process is spawned
\* only after the launch of every earlier service has concluded, started or
\* failed, and before any later one has begun; the frontend comes after all
\* backend services, and the health probes after the frontend's launch.
C12_LaunchesSerializedInOrder ==
    /\ [][\A h \in Handles : (h \in alive' /\ h \notin alive) =>
            /\ \A k \in 1..(h - 1) : Concluded(k)
            /\ \A k \in h..frontend_process : ~Concluded(k) /\ k \notin alive]_vars
    /\ [](pc = "health" => \A h \in Handles : Concluded(h))

C12_Witness ==
    /\ pc = "fgrace"
    /\ frontend_process \in alive
    /\ 1 \in failed
    /\ processes = <<2>>

\* C13: every outcome of the build and of the container backend start
\* leaves the run going, and with no fatal error after them the run launches
\* every service and the frontend, whatever fails its launch or health
\* probe, and enters the monitor loop with exactly the handles whose launch
\* probe passed.
C13_RecoverableFailuresContinue ==
    /\ [][(pc = "build" /\ pc' # pc) =>
            (pc' = "launch" /\ exitStatus' = NotExited)]_vars
    /\ [][(pc = "docker" /\ pc' # pc) =>
            (pc' = "deps_backend" /\ exitStatus' = NotExited)]_vars
    /\ [][(pc = "register" /\ handlerInstalled') =>
            /\ \A h \in Handles : Concluded(h)
            /\ Range(processes') = Handles \ failed
            /\ processes' = processes]_vars
    /\ (pc = "build" ~> handlerInstalled)
    /\ ((pc = "docker" /\ nodeModules = {"backend", "frontend"})
          ~> handlerInstalled)

C13_Witness ==
    /\ pc = "grace"
    /\ 1 \in alive
    /\ out = BuildLine("timeout")
    /\ dockerInstalled
    /\ ~docker_process

\* C14: no step of the health pass changes the tracked list, whatever the
\* probes return: a service whose probe is False stays tracked.
C14_HealthPassKeepsTracked ==
    [][pc = "health" => processes' = processes]_vars

C14_Witness ==
    /\ pc = "register"
    /\ out = HealthLine(2, FALSE)
    /\ processes = <<1, 2, frontend_process>>

\* C15: the provisioning step copies the template into an absent
\* configuration file, leaves an existing configuration file as it is
\* whatever the template holds, creates nothing when both are absent, never
\* touches the template, and a second provisioning would change nothing.
C15_ProvisioningCopiesOnlyWhenAbsent ==
    [][(pc = "env" /\ pc' = "docker") =>
         /\ (envFile = Absent /\ exampleEnv # Absent) => envFile' = exampleEnv
         /\ envFile # Absent => envFile' = envFile
         /\ (envFile = Absent /\ exampleEnv = Absent) => envFile' = Absent
         /\ exampleEnv' = exampleEnv
         /\ setup_env_file(envFile', exampleEnv') = envFile']_vars

C15_Witness ==
    /\ pc = "docker"
    /\ envFile = "template"
    /\ exampleEnv = "template"

\* C16: when reading the configuration file fails, at the open or after
\* any number of lines, load_env_file returns the ambient environment
\* unmodified.
C16_ReadFailureReturnsAmbient ==
    (lpc = "returned" /\ warned) => env_vars = environ

\* The overlay the file describes: text with surrounding blanks removed,
\* blank and comment lines (and lines without "=") ignored, key and value
\* separated at the first "=", one pair of surrounding quotes removed from
\* the value, the last line of a key deciding its value.
Trim(s) == strip(s, Whitespace)

Ignored(line) ==
    \/ Trim(line) = <<>>
    \/ Trim(line)[1] = "#"
    \/ "=" \notin Range(Trim(line))

FirstEq(t) == CHOOSE n \in 1..Len(t) : t[n] = "=" /\ \A j \in 1..(n - 1) : t[j] # "="

KeyOf(line) == Trim(SubSeq(Trim(line), 1, FirstEq(Trim(line)) - 1))

RawValue(line) == SubSeq(Trim(line), FirstEq(Trim(line)) + 1, Len(Trim(line)))

Unquoted(v) ==
    IF Len(v) >= 2 /\ v[1] \in {DQ, SQ} /\ v[Len(v)] = v[1]
    THEN SubSeq(v, 2, Len(v) - 1)
    ELSE v

ExpectedOverlay(file) ==
    LET entries == {k \in 1..Len(file) : ~Ignored(file[k])}
        keys    == {KeyOf(file[k]) : k \in entries}
        last(x) == CHOOSE k \in entries :
                       /\ KeyOf(file[k]) = x
                       /\ \A j \in entries : KeyOf(file[j]) = x => j <= k
    IN  [x \in DOMAIN environ \cup keys |->
           IF x \in keys THEN Unquoted(RawValue(file[last(x)])) ELSE environ[x]]

\* C17: a call of load_env_file that reads the whole file returns the
\* ambient environment overridden by the file's entries, quoted values
\* without their surrounding quotes and the last line of a key winning.
C17_OverlayIsAmbientOverriddenByFile ==
    (lpc = "returned" /\ ~warned) =>
        env_vars = (IF env_file.exists THEN ExpectedOverlay(env_file.lines)
                    ELSE environ)

\* The handle whose launch main is probing.
ProbedHandle == IF pc = "grace" THEN svc ELSE frontend_process

ProbeCompletes ==
    \/ pc = "grace" /\ pc' = "delay"
    \/ pc = "fgrace" /\ pc' = "warmup"

\* C18: a handle enters the tracked list exactly when its own launch probe
\* finds its process running, and leaves it exactly when the monitor loop
\* polls it and finds it exited; the list never holds a handle twice, never
\* holds a handle whose launch failed, and the loop never removes a handle
\* it polled as running.
C18_TrackedIffConfirmedAndNotObservedExited ==
    /\ [](Cardinality(Tracked) = Len(processes) /\ Tracked \cap failed = {})
    /\ [][processes' # processes =>
            \/ /\ ProbeCompletes
               /\ ProbedHandle \in alive
               /\ ProbedHandle \notin Tracked
               /\ processes' = Append(processes, ProbedHandle)
            \/ /\ pc = "loop_for" /\ i < Len(processes)
               /\ processes[i + 1] \notin alive
               /\ processes[i + 1] \notin polledAlive
               /\ processes' = SelectSeq(processes,
                                         LAMBDA x : x # processes[i + 1])]_vars
    /\ [][ProbeCompletes =>
            (ProbedHandle \in Range(processes') <=> ProbedHandle \in alive)]_vars
    /\ [][(pc = "loop_for" /\ i' = i + 1 /\ processes[i + 1] \notin alive) =>
            processes[i + 1] \notin Range(processes')]_vars

C18_Witness ==
    /\ pc = "loop_for"
    /\ out[1] = "stopped" /\ out[2] = 2
    /\ processes = <<1, frontend_process>>
    /\ failed = {}

\* C19: a run ended by a signal while processes it spawned are running has
\* requested the termination of each of them and exits with status 0,
\* wherever in the launch, warm-up, health or monitor phase the signal came.
C19_EarlySignalShutsEverythingDown ==
    (pc = "exited" /\ how \in {"killed", "handler"} /\ alive # {}) =>
        /\ exitStatus = ExitOk
        /\ \A h \in alive : termCalls[h] >= 1

\* The name a handle was launched as.
NameOf(h) == IF h <= NumServices THEN services[h] ELSE "frontend"

\* C20: whenever the monitor loop reports a process as stopped, the name in
\* the report is the name that process was launched as.
C20_StoppedReportNamesTheProcess ==
    out[1] = "stopped" => out[3] = NameOf(out[2])

====
